---------------------------- MODULE Spec2Model ----------------------------
(***************************************************************************)
(* Sentinel API (src/api/index.py): the audit gateway.                     *)
(*                                                                         *)
(* A client POSTs a request to /api/audit; the handler audit_request       *)
(* parses the body, renders the parsed value with str(), scans the text    *)
(* for the banned keywords, then checks the refund fields, and answers.    *)
(*                                                                         *)
(* Python values are tagged records:                                       *)
(*   [t |-> "str",   s |-> "..."]                                          *)
(*   [t |-> "int",   v |-> n, e |-> k]      the integer n * 10^k           *)
(*   [t |-> "float", cls |-> "fin" | "inf" | "ninf" | "nan", c |-> cents]  *)
(*   [t |-> "bool",  b |-> TRUE | FALSE]                                   *)
(*   [t |-> "none"]                                                        *)
(*   [t |-> "list",  elems |-> <<value, ...>>]                             *)
(*   [t |-> "dict",  pairs |-> << <<key, value>>, ... >>]  (insertion      *)
(*                                         order, keys are strings)       *)
(* Spec is the server answering one request at a time, over a wide set of  *)
(* payloads.  SpecThreads is the threaded server: each thread runs the     *)
(* handler step by step, the steps of the threads interleaved, over a      *)
(* smaller set of payloads.                                                *)
(*                                                                         *)
(* A finite float is held in hundredths (cents); the model's inputs are    *)
(* numbers with at most two decimals.  An int carries a decimal exponent   *)
(* so that integers beyond the range of a double (and of TLC's integers)   *)
(* can be inputs: JSON puts no limit on the size of an integer literal.    *)
(***************************************************************************)
EXTENDS Integers, Sequences, FiniteSets, TLC

VARIABLES
    BANNED_KEYWORDS,    \* module global, src/api/index.py:25
    MAX_REFUND_AMOUNT,  \* module global, src/api/index.py:41
    inflight,           \* the request received and not yet handled, or NoRequest
    handled,            \* the request the last response answers, or NoRequest
    data,               \* the handler's parsed payload when it returned
    response,           \* the last response, or NoResponse
    threads             \* SpecThreads: each server thread's request and locals

vars ==
    <<BANNED_KEYWORDS, MAX_REFUND_AMOUNT, inflight, handled, data, response, threads>>

(***************************************************************************)
(* Value constructors.                                                     *)
(***************************************************************************)
StrV(s) == [t |-> "str", s |-> s]
IntV(n) == [t |-> "int", v |-> n, e |-> 0]
BigIntV(n, k) == [t |-> "int", v |-> n, e |-> k]
FloatV(cents) == [t |-> "float", cls |-> "fin", c |-> cents]
InfV == [t |-> "float", cls |-> "inf", c |-> 0]
NegInfV == [t |-> "float", cls |-> "ninf", c |-> 0]
NaNV == [t |-> "float", cls |-> "nan", c |-> 0]
BoolV(b) == [t |-> "bool", b |-> b]
NoneV == [t |-> "none"]
ListV(elems) == [t |-> "list", elems |-> elems]
DictV(pairs) == [t |-> "dict", pairs |-> pairs]

(***************************************************************************)
(* Text.  A string is a TLA+ string; Char(s, i) is its i-th character.     *)
(***************************************************************************)
Char(s, i) == SubSeq(s, i, i)

UPPERCASE == "ABCDEFGHIJKLMNOPQRSTUVWXYZ"
LOWERCASE == "abcdefghijklmnopqrstuvwxyz"

\* str.lower() on one character (ASCII letters; the model's texts are ASCII)
LowerChar(c) ==
    IF \E k \in 1..Len(UPPERCASE) : Char(UPPERCASE, k) = c
    THEN Char(LOWERCASE, CHOOSE k \in 1..Len(UPPERCASE) : Char(UPPERCASE, k) = c)
    ELSE c

\* str.lower(): each character lowered, the text taken by halves
RECURSIVE Lower(_)
Lower(s) ==
    IF s = "" THEN ""
    ELSE IF Len(s) = 1 THEN LowerChar(s)
    ELSE LET half == Len(s) \div 2
         IN Lower(SubSeq(s, 1, half)) \o Lower(SubSeq(s, half + 1, Len(s)))

\* needle in hay, for two strings
Contains(hay, needle) ==
    \E i \in 1..(Len(hay) - Len(needle) + 1) :
        SubSeq(hay, i, i + Len(needle) - 1) = needle


(***************************************************************************)
(* Numbers as text: str(int), repr(float), format(float, ".2f").           *)
(***************************************************************************)
Abs(n) == IF n < 0 THEN -n ELSE n

\* "0" * k
RECURSIVE Zeros(_)
Zeros(k) ==
    IF k = 0 THEN ""
    ELSE LET h == Zeros(k \div 2)
         IN h \o h \o (IF k % 2 = 1 THEN "0" ELSE "")

TwoDigits(n) == IF n < 10 THEN "0" \o ToString(n) ELSE ToString(n)

\* str(n) of an int: its decimal digits
IntText(n) ==
    IF n.v = 0 THEN "0" ELSE ToString(n.v) \o Zeros(n.e)

\* repr(f) of a float: the shortest text that reads back, at least one decimal
FloatText(f) ==
    CASE f.cls = "inf" -> "inf"
      [] f.cls = "ninf" -> "-inf"
      [] f.cls = "nan" -> "nan"
      [] OTHER ->
            LET whole == Abs(f.c) \div 100
                frac == Abs(f.c) % 100
            IN (IF f.c < 0 THEN "-" ELSE "")
                 \o ToString(whole) \o "."
                 \o (IF frac % 10 = 0 THEN ToString(frac \div 10) ELSE TwoDigits(frac))

\* f"{amount:.2f}"
Format2f(f) ==
    CASE f.cls = "inf" -> "inf"
      [] f.cls = "ninf" -> "-inf"
      [] f.cls = "nan" -> "nan"
      [] OTHER ->
            (IF f.c < 0 THEN "-" ELSE "")
              \o ToString(Abs(f.c) \div 100) \o "." \o TwoDigits(Abs(f.c) % 100)

(***************************************************************************)
(* repr() and str() of a value, as CPython renders them.                   *)
(***************************************************************************)
\* the body of a string literal: backslash and the enclosing quote escaped
RECURSIVE Escape(_, _)
Escape(s, quote) ==
    IF s = "" THEN ""
    ELSE IF Len(s) = 1 THEN (IF s = "\\" \/ s = quote THEN "\\" \o s ELSE s)
    ELSE LET half == Len(s) \div 2
         IN Escape(SubSeq(s, 1, half), quote) \o Escape(SubSeq(s, half + 1, Len(s)), quote)

\* repr(s) of a str: single quotes, unless it holds ' and no "
StrRepr(s) ==
    IF Contains(s, "'") /\ ~Contains(s, "\"")
    THEN "\"" \o Escape(s, "\"") \o "\""
    ELSE "'" \o Escape(s, "'") \o "'"

RECURSIVE py_repr(_)
RECURSIVE ReprElems(_, _)
RECURSIVE ReprPairs(_, _)

\* ", ".join(repr(x) for x in elems[i:])
ReprElems(elems, i) ==
    IF i > Len(elems) THEN ""
    ELSE (IF i > 1 THEN ", " ELSE "") \o py_repr(elems[i]) \o ReprElems(elems, i + 1)

\* ", ".join(repr(k) + ": " + repr(v) for k, v in pairs[i:])
ReprPairs(pairs, i) ==
    IF i > Len(pairs) THEN ""
    ELSE (IF i > 1 THEN ", " ELSE "")
           \o StrRepr(pairs[i][1]) \o ": " \o py_repr(pairs[i][2])
           \o ReprPairs(pairs, i + 1)

py_repr(x) ==
    CASE x.t = "str" -> StrRepr(x.s)
      [] x.t = "int" -> IntText(x)
      [] x.t = "float" -> FloatText(x)
      [] x.t = "bool" -> (IF x.b THEN "True" ELSE "False")
      [] x.t = "none" -> "None"
      [] x.t = "list" -> "[" \o ReprElems(x.elems, 1) \o "]"
      [] x.t = "dict" -> "{" \o ReprPairs(x.pairs, 1) \o "}"

\* str(data), src/api/index.py:159: a str is itself, anything else its repr
py_str(x) == IF x.t = "str" THEN x.s ELSE py_repr(x)

(***************************************************************************)
(* float(x), src/api/index.py:96.  The result is                           *)
(*   [ok |-> TRUE, val |-> a float]  or  [ok |-> FALSE, exc |-> the error]. *)
(***************************************************************************)
Returned(x) == [ok |-> TRUE, val |-> x]
Raised(exc) == [ok |-> FALSE, exc |-> exc]

DIGITS == "0123456789"
IsDigit(c) == \E k \in 1..Len(DIGITS) : Char(DIGITS, k) = c
DigitVal(c) == (CHOOSE k \in 1..Len(DIGITS) : Char(DIGITS, k) = c) - 1
AllDigits(s) == \A i \in 1..Len(s) : IsDigit(Char(s, i))

RECURSIVE ParseNat(_)
ParseNat(s) ==
    IF s = "" THEN 0
    ELSE 10 * ParseNat(SubSeq(s, 1, Len(s) - 1)) + DigitVal(Char(s, Len(s)))

RECURSIVE Strip(_)
\* s.strip() for blanks
Strip(s) ==
    IF s = "" THEN ""
    ELSE IF Char(s, 1) = " " THEN Strip(SubSeq(s, 2, Len(s)))
    ELSE IF Char(s, Len(s)) = " " THEN Strip(SubSeq(s, 1, Len(s) - 1))
    ELSE s

\* the unsigned part of a float literal: inf, infinity, nan (any case), or
\* digits with an optional point and at most two decimals.  Exponents,
\* underscores and longer fractions are not among the model's inputs.
ParseUnsigned(u) ==
    LET low == Lower(u)
        dot == IF Contains(u, ".")
               THEN CHOOSE i \in 1..Len(u) : Char(u, i) = "."
               ELSE Len(u) + 1
        whole == SubSeq(u, 1, dot - 1)
        frac == SubSeq(u, dot + 1, Len(u))
    IN CASE low = "inf" \/ low = "infinity" -> Returned(InfV)
         [] low = "nan" -> Returned(NaNV)
         [] /\ low # "inf" /\ low # "infinity" /\ low # "nan"
            /\ AllDigits(whole) /\ AllDigits(frac) /\ Len(frac) <= 2
            /\ Len(whole) + Len(frac) > 0 ->
                Returned(FloatV(100 * ParseNat(whole)
                    + (IF Len(frac) = 1 THEN 10 * ParseNat(frac) ELSE ParseNat(frac))))
         [] OTHER -> Raised("ValueError")

Negate(r) ==
    IF ~r.ok THEN r
    ELSE CASE r.val.cls = "inf" -> Returned(NegInfV)
           [] r.val.cls = "nan" -> r
           [] OTHER -> Returned(FloatV(-r.val.c))

\* float(s) of a str
StrToFloat(s) ==
    LET b == Strip(s)
    IN IF b = "" THEN Raised("ValueError")
       ELSE IF Char(b, 1) = "-" THEN Negate(ParseUnsigned(SubSeq(b, 2, Len(b))))
       ELSE IF Char(b, 1) = "+" THEN ParseUnsigned(SubSeq(b, 2, Len(b)))
       ELSE ParseUnsigned(b)

RECURSIVE NumDigits(_)
NumDigits(n) == IF n < 10 THEN 1 ELSE 1 + NumDigits(n \div 10)

RECURSIVE Pow10(_)
Pow10(k) == IF k = 0 THEN 1 ELSE 10 * Pow10(k - 1)

\* float(n) of an int raises OverflowError when |n| does not round to a
\* finite double: |n| >= 2^1024 - 2^970 = 1797693134 862315807...e299, a
\* number of 309 digits.  n = v * 10^e with v of d <= 10 digits is that large
\* iff it has more than 309 digits, or 309 and v exceeds the bound's first d.
IntTooLarge(n) ==
    LET d == NumDigits(Abs(n.v))
    IN /\ n.v # 0
       /\ \/ d + n.e > 309
          \/ d + n.e = 309 /\ Abs(n.v) > 1797693134 \div Pow10(10 - d)

py_float(x) ==
    CASE x.t = "float" -> Returned(x)
      [] x.t = "int" ->
            IF IntTooLarge(x) THEN Raised("OverflowError")
            ELSE Returned(FloatV(100 * x.v * Pow10(x.e)))
      [] x.t = "bool" -> Returned(FloatV(IF x.b THEN 100 ELSE 0))
      [] x.t = "str" -> StrToFloat(x.s)
      [] OTHER -> Raised("TypeError")

\* a > b, for a float a and the int b
GreaterThan(a, b) ==
    CASE a.cls = "inf" -> TRUE
      [] a.cls = "ninf" -> FALSE
      [] a.cls = "nan" -> FALSE
      [] OTHER -> a.c > 100 * b

(***************************************************************************)
(* check_for_banned_keywords, src/api/index.py:44-68.                      *)
(***************************************************************************)
\* the loop of lines 64-68 from the i-th keyword on
RECURSIVE ScanKeywords(_, _, _)
ScanKeywords(keywords, i, data_lower) ==
    IF i > Len(keywords) THEN [is_banned |-> FALSE]
    ELSE IF Contains(data_lower, Lower(keywords[i]))
         THEN [is_banned |-> TRUE, keyword |-> keywords[i]]
         ELSE ScanKeywords(keywords, i + 1, data_lower)

\* a faulty variant that C1 rules out: the text scanned as it is, not lowered
check_for_banned_keywords_case_sensitive(data_str) ==
    ScanKeywords(BANNED_KEYWORDS, 1, data_str)

check_for_banned_keywords(data_str) ==
    ScanKeywords(BANNED_KEYWORDS, 1, Lower(data_str))

(***************************************************************************)
(* check_refund_amount, src/api/index.py:71-104.  The result is            *)
(*   [raised |-> FALSE, is_blocked |-> ..., (amount |-> a float)]  or      *)
(*   [raised |-> TRUE, exc |-> the error that leaves the function].        *)
(***************************************************************************)
refund_fields == <<"refund_amount", "refund", "amount">>

HasKey(pairs, key) == \E i \in 1..Len(pairs) : pairs[i][1] = key
Lookup(pairs, key) == pairs[CHOOSE i \in 1..Len(pairs) : pairs[i][1] = key][2]

\* `field in data`, line 94: the key test of a dict, the element test of a
\* list, the substring test of a str; any other operand raises TypeError
FieldIn(field, d) ==
    CASE d.t = "dict" -> Returned(HasKey(d.pairs, field))
      [] d.t = "list" -> Returned(\E i \in 1..Len(d.elems) : d.elems[i] = StrV(field))
      [] d.t = "str" -> Returned(Contains(d.s, field))
      [] OTHER -> Raised("TypeError")

\* float(data[field]), line 96: only a dict can be indexed with a str
FieldAsFloat(d, field) ==
    IF d.t = "dict" THEN py_float(Lookup(d.pairs, field)) ELSE Raised("TypeError")

\* the loop of lines 93-104 from the i-th field name on
RECURSIVE CheckFields(_, _)
CheckFields(d, i) ==
    IF i > Len(refund_fields) THEN [raised |-> FALSE, is_blocked |-> FALSE]
    ELSE LET present == FieldIn(refund_fields[i], d)
             amount == FieldAsFloat(d, refund_fields[i])
         IN IF ~present.ok THEN [raised |-> TRUE, exc |-> present.exc]
            ELSE IF ~present.val THEN CheckFields(d, i + 1)
            ELSE IF amount.ok
                 THEN IF GreaterThan(amount.val, MAX_REFUND_AMOUNT)
                      THEN [raised |-> FALSE, is_blocked |-> TRUE, amount |-> amount.val]
                      ELSE CheckFields(d, i + 1)
            ELSE IF amount.exc \in {"ValueError", "TypeError"}
                 THEN CheckFields(d, i + 1)
            ELSE [raised |-> TRUE, exc |-> amount.exc]

\* a faulty variant that C6 rules out: a value float() rejects ends the loop (return for continue)
RECURSIVE CheckFieldsStopOnError(_, _)
CheckFieldsStopOnError(d, i) ==
    IF i > Len(refund_fields) THEN [raised |-> FALSE, is_blocked |-> FALSE]
    ELSE LET present == FieldIn(refund_fields[i], d)
             amount == FieldAsFloat(d, refund_fields[i])
         IN IF ~present.ok THEN [raised |-> TRUE, exc |-> present.exc]
            ELSE IF ~present.val THEN CheckFieldsStopOnError(d, i + 1)
            ELSE IF amount.ok
                 THEN IF GreaterThan(amount.val, MAX_REFUND_AMOUNT)
                      THEN [raised |-> FALSE, is_blocked |-> TRUE, amount |-> amount.val]
                      ELSE CheckFieldsStopOnError(d, i + 1)
            ELSE IF amount.exc \in {"ValueError", "TypeError"}
                 THEN [raised |-> FALSE, is_blocked |-> FALSE]
            ELSE [raised |-> TRUE, exc |-> amount.exc]

check_refund_amount_stop_on_error(d) == CheckFieldsStopOnError(d, 1)

\* a faulty variant that C9 rules out: a number within the limit ends the loop
RECURSIVE CheckFieldsStopWithin(_, _)
CheckFieldsStopWithin(d, i) ==
    IF i > Len(refund_fields) THEN [raised |-> FALSE, is_blocked |-> FALSE]
    ELSE LET present == FieldIn(refund_fields[i], d)
             amount == FieldAsFloat(d, refund_fields[i])
         IN IF ~present.ok THEN [raised |-> TRUE, exc |-> present.exc]
            ELSE IF ~present.val THEN CheckFieldsStopWithin(d, i + 1)
            ELSE IF amount.ok
                 THEN IF GreaterThan(amount.val, MAX_REFUND_AMOUNT)
                      THEN [raised |-> FALSE, is_blocked |-> TRUE, amount |-> amount.val]
                      ELSE [raised |-> FALSE, is_blocked |-> FALSE]
            ELSE IF amount.exc \in {"ValueError", "TypeError"}
                 THEN CheckFieldsStopWithin(d, i + 1)
            ELSE [raised |-> TRUE, exc |-> amount.exc]

check_refund_amount_stop_within(d) == CheckFieldsStopWithin(d, 1)

check_refund_amount(d) == CheckFields(d, 1)

(***************************************************************************)
(* Requests and responses.                                                 *)
(*   request:  [ctype |-> "json" | "text", body |-> Json(v) | Malformed]   *)
(*   response: [code |-> 200 | 400, body |-> the JSON object answered], or *)
(*             [code |-> 500, exc |-> the exception no handler caught]     *)
(***************************************************************************)
Json(v) == [kind |-> "json", value |-> v]
Malformed == [kind |-> "malformed"]
JsonRequest(v) == [ctype |-> "json", body |-> Json(v)]

NoRequest == [ctype |-> "none"]
HealthRequest == [ctype |-> "health"]
NoResponse == [code |-> 0]
NoData == [t |-> "unset"]

Answer(code, body) == [code |-> code, body |-> body]
ServerError(exc) == [code |-> 500, exc |-> exc]

\* request.get_json(), line 142: the outcomes it can have.  A body that is
\* not JSON raises BadRequest; a content type that is not JSON raises
\* UnsupportedMediaType (Flask 2.1 and later) or gives None (before).
get_json(req) ==
    IF req.ctype # "json" THEN {Raised("UnsupportedMediaType"), Returned(NoneV)}
    ELSE IF req.body.kind = "malformed" THEN {Raised("BadRequest")}
    ELSE {Returned(req.body.value)}

\* step 1 of audit_request, lines 141-152: the 400 answer when get_json ended
\* as `parsed` without a payload, NoResponse when the handler goes on
parse_step(parsed) ==
    IF ~parsed.ok
    THEN Answer(400, [status |-> "BLOCKED",
             reason |-> "JSON parsing error: " \o parsed.exc])
    ELSE IF parsed.val = NoneV
    THEN Answer(400, [status |-> "BLOCKED",
             reason |-> "Invalid JSON payload or missing Content-Type header"])
    ELSE NoResponse

\* steps 2 and 3, lines 159-169: the answer when a banned keyword is found,
\* NoResponse when the handler goes on
keyword_step(d) ==
    LET data_str == py_str(d)
        scan == check_for_banned_keywords(data_str)
    IN IF scan.is_banned
       THEN Answer(200, [status |-> "BLOCKED",
                reason |-> "Banned keyword detected: \"" \o scan.keyword \o "\""])
       ELSE NoResponse

\* steps 4 and 5, lines 174-186; an exception leaving check_refund_amount
\* leaves the handler too
refund_step(d) ==
    LET refund == check_refund_amount(d)
    IN IF refund.raised THEN ServerError(refund.exc)
       ELSE IF refund.is_blocked
       THEN Answer(200, [status |-> "BLOCKED",
                reason |-> "Refund amount $" \o Format2f(refund.amount)
                             \o " exceeds maximum of $" \o ToString(MAX_REFUND_AMOUNT)])
       ELSE Answer(200, [status |-> "APPROVED"])

\* a faulty variant that C2 rules out: the refund rule checked before the keywords
audit_refund_first(d) ==
    LET refund == refund_step(d)
        banned == keyword_step(d)
    IN IF refund # Answer(200, [status |-> "APPROVED"]) THEN refund
       ELSE IF banned # NoResponse THEN banned
       ELSE Answer(200, [status |-> "APPROVED"])

\* steps 2 to 5 of audit_request, lines 159-186, on the parsed payload d
audit(d) ==
    LET banned == keyword_step(d)
    IN IF banned # NoResponse THEN banned ELSE refund_step(d)

\* the whole of audit_request, lines 141-186, when get_json ended as `parsed`
Respond(parsed) ==
    LET rejected == parse_step(parsed)
    IN IF rejected # NoResponse THEN rejected ELSE audit(parsed.val)

(***************************************************************************)
(* The policy as the module sets it, lines 25-36 and 41.                   *)
(***************************************************************************)
BannedKeywordsAtImport ==
    << "DROP TABLE", "DELETE FROM", "refund > 500", "angry", "unauthorized",
       "exec(", "eval(", "wasting our time", "shut up", "idiot" >>

MaxRefundAtImport == 500

(***************************************************************************)
(* The payloads the clients send.                                          *)
(***************************************************************************)
Absent == [t |-> "absent"]

\* what a refund field holds in the three-field payloads
RefundValues ==
    { Absent, IntV(100), IntV(500), IntV(600), FloatV(75050),
      StrV("not_a_number"), StrV("600.25"), NoneV, BigIntV(1, 309) }

\* further values a single refund field holds
OddRefundValues ==
    { IntV(501), FloatV(50001), FloatV(50000), IntV(-600), BoolV(TRUE),
      ListV(<<IntV(600)>>), DictV(<< <<"value", IntV(600)>> >>),
      InfV, NegInfV, NaNV, StrV("inf"), StrV("-Infinity"), StrV("nan"),
      StrV(" 501 "), StrV("+750."), StrV(".5"), StrV(""), StrV("6 00"),
      BigIntV(-1, 400), BigIntV(2, 308), BigIntV(17, 400) }

Field(key, v) == IF v = Absent THEN <<>> ELSE << <<key, v>> >>

\* {"refund_amount": a, "refund": b, "amount": c}, each field there or not
RefundPayloads ==
    { DictV(Field("refund_amount", a) \o Field("refund", b) \o Field("amount", c)) :
        a \in RefundValues, b \in RefundValues, c \in RefundValues }

OddRefundPayloads ==
    { DictV(<< <<"customer", StrV("alice")>>, <<k, v>> >>) :
        k \in {"refund_amount", "refund", "amount"}, v \in OddRefundValues }

Texts ==
    { "john_doe", "view_profile", "DROP TABLE users", "drop table users",
      "I am angry about this service", "you are idiotic", "Unauthorized EVAL(x)",
      "shut up, idiot! Delete From t", "stop wasting our time", "exec(",
      "refund > 500", "REFUND >500", "drop  table", "ang ry", "exec (1)",
      "it's \"fine\"", "don't be an IDIOT", "refund_amount 600" }

\* {"user": "john_doe", <key>: <text>, "refund"?: <amount>}
TextPayloads ==
    { DictV(<< <<"user", StrV("john_doe")>>, <<k, StrV(s)>> >> \o Field("refund", r)) :
        k \in {"query", "customer_message"}, s \in Texts,
        r \in {Absent, IntV(50), IntV(600)} }

\* a banned phrase in a key, in a nested value, beside a refund field
NestedPayloads ==
    { DictV(<< <<"DROP TABLE", IntV(1)>> >>),
      DictV(<< <<"angry_customer", BoolV(TRUE)>>, <<"amount", IntV(750)>> >>),
      DictV(<< <<"ticket", DictV(<< <<"notes", ListV(<<StrV("he is an idiot"), IntV(123)>>)>> >>)>> >>),
      DictV(<< <<"ticket", DictV(<< <<"refund_amount", IntV(750)>> >>)>> >>),
      DictV(<< <<"items", ListV(<<StrV("exec"), StrV("(")>>)>>, <<"refund", IntV(600)>> >>),
      DictV(<< <<"drop", StrV("table")>> >>),
      DictV(<< <<"note", StrV("Angry!")>>, <<"refund_amount", BigIntV(1, 309)>> >>),
      DictV(<< <<"note", StrV("eval(1)")>>, <<"amount", FloatV(75050)>> >>),
      DictV(<< <<"refund", StrV("shut up")>>, <<"amount", IntV(501)>> >>),
      DictV(<< <<"refund >", IntV(500)>> >>),
      DictV(<< <<"customer_message", StrV("I am angry about this service")>>,
               <<"ticket_id", IntV(123)>> >>),
      DictV(<< <<"customer", StrV("alice")>>, <<"refund_amount", IntV(750)>>,
               <<"reason", StrV("defective")>> >>),
      DictV(<< <<"user", StrV("john_doe")>>, <<"action", StrV("view_profile")>>,
               <<"refund", IntV(50)>> >>),
      DictV(<<>>) }

\* payloads that are no mapping at top level
OtherPayloads ==
    { StrV(s) : s \in Texts } \cup
    { ListV(<<>>), ListV(<<StrV("refund_amount"), IntV(600)>>),
      ListV(<<DictV(<< <<"refund_amount", IntV(750)>> >>)>>),
      ListV(<<StrV("so angry"), NoneV>>), ListV(<<StrV("refund"), StrV("amount")>>),
      IntV(0), IntV(5), IntV(750), BigIntV(1, 309), FloatV(75050), InfV,
      BoolV(TRUE), BoolV(FALSE), NoneV }

Payloads ==
    RefundPayloads \cup OddRefundPayloads \cup TextPayloads \cup NestedPayloads
      \cup OtherPayloads

Requests ==
    { JsonRequest(v) : v \in Payloads } \cup
    { [ctype |-> "json", body |-> Malformed], [ctype |-> "text", body |-> Malformed] } \cup
    { [ctype |-> "text", body |-> Json(v)] : v \in NestedPayloads }

(***************************************************************************)
(* The state machine: one request at a time.                               *)
(***************************************************************************)
NumThreads == 2
Threads == 1..NumThreads

\* a thread: where it is in the handler (idle, parse, scan, refund, done),
\* the request it serves, its local `data`, and its answer
IdleThread ==
    [pc |-> "idle", request |-> NoRequest, data |-> NoData, response |-> NoResponse]

Policy == <<BANNED_KEYWORDS, MAX_REFUND_AMOUNT>>
Sequential == <<inflight, handled, data, response>>

InitPolicy ==
    /\ BANNED_KEYWORDS = BannedKeywordsAtImport
    /\ MAX_REFUND_AMOUNT = MaxRefundAtImport

Init ==
    /\ InitPolicy
    /\ inflight = NoRequest
    /\ handled = NoRequest
    /\ data = NoData
    /\ response = NoResponse
    /\ threads = [t \in Threads |-> IdleThread]

\* a client sends POST /api/audit (as run_tests does, lines 228-230)
Post(req) ==
    /\ inflight = NoRequest
    /\ inflight' = req
    /\ handled' = NoRequest
    /\ data' = NoData
    /\ response' = NoResponse
    /\ UNCHANGED <<Policy, threads>>

\* the handler of POST /api/audit, lines 113-186
audit_request ==
    /\ inflight # NoRequest
    /\ \E parsed \in get_json(inflight) :
          /\ data' = (IF parsed.ok THEN parsed.val ELSE NoData)
          /\ response' = Respond(parsed)
    /\ handled' = inflight
    /\ inflight' = NoRequest
    /\ UNCHANGED <<Policy, threads>>

\* the handler of GET /health, lines 192-200
health_check ==
    /\ inflight = NoRequest
    /\ handled' = HealthRequest
    /\ data' = NoData
    /\ response' = Answer(200, [status |-> "healthy"])
    /\ UNCHANGED <<Policy, inflight, threads>>

Next ==
    \/ \E req \in Requests : Post(req)
    \/ audit_request
    \/ health_check

Spec == Init /\ [][Next]_vars

(***************************************************************************)
(* The state machine: the threaded server.  A thread takes a request and   *)
(* runs audit_request on it in four steps, each reading the module globals *)
(* as they are when the step runs.                                         *)
(***************************************************************************)
ThreadPayloads ==
    { DictV(<< <<"user", StrV("john_doe")>>, <<"action", StrV("view_profile")>>,
               <<"refund", IntV(50)>> >>),
      DictV(<< <<"query", StrV("DROP TABLE users")>>, <<"user", StrV("hacker")>> >>),
      DictV(<< <<"refund_amount", StrV("not_a_number")>>, <<"refund", IntV(600)>> >>),
      DictV(<< <<"note", StrV("eval(1)")>>, <<"amount", FloatV(75050)>> >>),
      DictV(<< <<"refund_amount", IntV(100)>>, <<"refund", IntV(600)>> >>),
      StrV("you are idiotic"), IntV(5), NoneV }

ThreadRequests ==
    { JsonRequest(v) : v \in ThreadPayloads } \cup
    { [ctype |-> "json", body |-> Malformed] }

\* the server hands a request to a thread that serves none
accept(t, req) ==
    /\ threads[t].pc \in {"idle", "done"}
    /\ threads' = [threads EXCEPT ![t] =
            [pc |-> "parse", request |-> req, data |-> NoData, response |-> NoResponse]]
    /\ UNCHANGED <<Policy, Sequential>>

\* step 1, lines 141-152
thread_parse(t) ==
    /\ threads[t].pc = "parse"
    /\ \E parsed \in get_json(threads[t].request) :
          LET rejected == parse_step(parsed)
          IN threads' = [threads EXCEPT ![t] =
                 IF rejected # NoResponse
                 THEN [@ EXCEPT !.pc = "done", !.response = rejected,
                                !.data = (IF parsed.ok THEN parsed.val ELSE NoData)]
                 ELSE [@ EXCEPT !.pc = "scan", !.data = parsed.val]]
    /\ UNCHANGED <<Policy, Sequential>>

\* a faulty variant that C8 rules out: the scan lowers the keyword list in place
thread_scan_lowering(t) ==
    /\ threads[t].pc = "scan"
    /\ LET banned == keyword_step(threads[t].data)
       IN threads' = [threads EXCEPT ![t] =
              IF banned # NoResponse
              THEN [@ EXCEPT !.pc = "done", !.response = banned]
              ELSE [@ EXCEPT !.pc = "refund"]]
    /\ BANNED_KEYWORDS' = [i \in DOMAIN BANNED_KEYWORDS |-> Lower(BANNED_KEYWORDS[i])]
    /\ UNCHANGED <<MAX_REFUND_AMOUNT, Sequential>>

\* steps 2 and 3, lines 159-169
thread_scan(t) ==
    /\ threads[t].pc = "scan"
    /\ LET banned == keyword_step(threads[t].data)
       IN threads' = [threads EXCEPT ![t] =
              IF banned # NoResponse
              THEN [@ EXCEPT !.pc = "done", !.response = banned]
              ELSE [@ EXCEPT !.pc = "refund"]]
    /\ UNCHANGED <<Policy, Sequential>>

\* steps 4 and 5, lines 174-186
thread_refund(t) ==
    /\ threads[t].pc = "refund"
    /\ threads' = [threads EXCEPT ![t] =
            [@ EXCEPT !.pc = "done", !.response = refund_step(threads[t].data)]]
    /\ UNCHANGED <<Policy, Sequential>>

NextThreads ==
    \E t \in Threads :
        \/ \E req \in ThreadRequests : accept(t, req)
        \/ thread_parse(t)
        \/ thread_scan(t)
        \/ thread_refund(t)

SpecThreads == Init /\ [][NextThreads]_vars

(***************************************************************************)
(* Vocabulary of the properties.                                           *)
(***************************************************************************)
\* the last response answers a POST whose body parsed as JSON
Parsed == handled.ctype = "json" /\ handled.body.kind = "json"
Payload == handled.body.value
\* ... and the parsed payload went through steps 2 to 5
Audited == Parsed /\ Payload # NoneV

Phrase(i) == BannedKeywordsAtImport[i]
Phrases == 1..Len(BannedKeywordsAtImport)

\* the i-th phrase is a case-insensitive substring of the serialized payload
Hits(v) ==
    LET text == Lower(py_str(v))
    IN { i \in Phrases : Contains(text, Lower(Phrase(i))) }
\* the least number of a set of numbers
Least(S) == CHOOSE i \in S : \A j \in S : i <= j
FirstHit(v) == Least(Hits(v))

\* the i-th phrase is a case-insensitive substring of a key or of a string
\* somewhere in the value tree
RECURSIVE InTree(_, _)
InTree(i, v) ==
    CASE v.t = "str" -> Contains(Lower(v.s), Lower(Phrase(i)))
      [] v.t = "list" -> \E k \in 1..Len(v.elems) : InTree(i, v.elems[k])
      [] v.t = "dict" ->
            \E k \in 1..Len(v.pairs) :
                \/ Contains(Lower(v.pairs[k][1]), Lower(Phrase(i)))
                \/ InTree(i, v.pairs[k][2])
      [] OTHER -> FALSE

Blocked(reason) == Answer(200, [status |-> "BLOCKED", reason |-> reason])
Approved == Answer(200, [status |-> "APPROVED"])
KeywordReason(i) == "Banned keyword detected: \"" \o Phrase(i) \o "\""
IsKeywordBlock(r) ==
    /\ r.code = 200
    /\ r.body.status = "BLOCKED"
    /\ SubSeq(r.body.reason, 1, 24) = "Banned keyword detected:"
IsRefundBlock(r) ==
    /\ r.code = 200
    /\ r.body.status = "BLOCKED"
    /\ SubSeq(r.body.reason, 1, 13) = "Refund amount"

\* the integer n exceeds the limit of 500
IntOverLimit(n) == n.v > 0 /\ (n.e >= 3 \/ n.v * Pow10(n.e) > 500)
\* the JSON number v (an int or a float) exceeds the limit of 500
NumberOverLimit(v) ==
    \/ v.t = "int" /\ IntOverLimit(v)
    \/ v.t = "float" /\ (v.cls = "inf" \/ (v.cls = "fin" /\ v.c > 50000))

RefundKeys == 1..Len(refund_fields)
HasField(v, k) == v.t = "dict" /\ HasKey(v.pairs, refund_fields[k])
FieldOf(v, k) == Lookup(v.pairs, refund_fields[k])

(***************************************************************************)
(* C1.  Whenever a banned phrase occurs in the payload (case-insensitive,  *)
(* in a key, a value or a nested structure, also inside a larger word),    *)
(* the answer is BLOCKED and its reason names the earliest phrase of       *)
(* BANNED_KEYWORDS that occurs in the serialized payload, as the list      *)
(* spells it.                                                              *)
(***************************************************************************)
C1_EarliestBannedPhraseIsReported ==
    Audited /\ (Hits(Payload) # {} \/ \E i \in Phrases : InTree(i, Payload))
        => /\ Hits(Payload) # {}
           /\ response = Blocked(KeywordReason(FirstHit(Payload)))

\* two phrases occur, the one earlier in the list later in the text, inside a
\* mixed-case sentence: "shut up, idiot! Delete From t" reports DELETE FROM
C1_Witness ==
    /\ Audited
    /\ Hits(Payload) = {2, 9, 10}
    /\ response = Blocked("Banned keyword detected: \"DELETE FROM\"")

(***************************************************************************)
(* C2.  A payload with a banned phrase and a refund field holding a number *)
(* over 500 is BLOCKED for the keyword, never for the refund: the refund   *)
(* check is not reached (its errors do not show either).                   *)
(***************************************************************************)
HasRefundOverLimit(v) ==
    \E k \in RefundKeys : HasField(v, k) /\ NumberOverLimit(FieldOf(v, k))

C2_KeywordBeforeRefund ==
    Audited /\ Hits(Payload) # {} /\ HasRefundOverLimit(Payload)
        => /\ response = Blocked(KeywordReason(FirstHit(Payload)))
           /\ ~IsRefundBlock(response)

C2_Witness ==
    /\ Audited
    /\ Hits(Payload) # {}
    /\ HasRefundOverLimit(Payload)
    /\ IsKeywordBlock(response)

(***************************************************************************)
(* Vocabulary of the refund rule.                                          *)
(***************************************************************************)
\* float() cannot turn v into a number: v is no number and no numeric text
NonNumeric(v) ==
    \/ v.t \in {"none", "list", "dict"}
    \/ v.t = "str" /\ ~StrToFloat(v.s).ok

\* v is a number or a numeric text, and the number is over 500
OverLimit(v) ==
    \/ NumberOverLimit(v)
    \/ v.t = "str" /\ StrToFloat(v.s).ok /\ NumberOverLimit(StrToFloat(v.s).val)

\* the amount v stands for, in cents, when it is over the limit and finite
CentsOf(v) ==
    CASE v.t = "int" -> 100 * v.v * Pow10(v.e)
      [] v.t = "float" -> v.c
      [] v.t = "str" -> StrToFloat(v.s).val.c

IsInfinite(v) ==
    \/ v.t = "float" /\ v.cls = "inf"
    \/ v.t = "str" /\ StrToFloat(v.s).ok /\ StrToFloat(v.s).val.cls = "inf"

\* the amount as the reason shows it: two decimals
TwoDecimals(cents) ==
    ToString(cents \div 100) \o "."
      \o (IF cents % 100 < 10 THEN "0" ELSE "") \o ToString(cents % 100)

\* an integer beyond TLC's range is written out digit by digit
AmountText(v) ==
    IF IsInfinite(v) THEN "inf"
    ELSE IF v.t = "int" /\ v.e > 0 THEN IntText(v) \o ".00"
    ELSE TwoDecimals(CentsOf(v))
RefundReason(v) == "Refund amount $" \o AmountText(v) \o " exceeds maximum of $500"

\* v is an integer that float() cannot hold
TooLarge(v) == v.t = "int" /\ IntTooLarge(v)

\* v is a number or a numeric text that float() holds, and is at most 500
WithinLimit(v) == ~NonNumeric(v) /\ ~TooLarge(v) /\ ~OverLimit(v)

\* the float that v stands for (v neither non-numeric nor too large)
AsFloat(v) ==
    CASE v.t = "int" -> FloatV(100 * v.v * Pow10(v.e))
      [] v.t = "bool" -> FloatV(IF v.b THEN 100 ELSE 0)
      [] v.t = "float" -> v
      [] v.t = "str" -> StrToFloat(v.s).val

\* the refund fields of v that hold a value over the limit, and the first
OverKeys(v) == { k \in RefundKeys : HasField(v, k) /\ OverLimit(FieldOf(v, k)) }
FirstOverKey(v) == Least(OverKeys(v))

(***************************************************************************)
(* C3.  With no banned phrase in the payload and no refund field over the  *)
(* limit, whatever the shape of the payload, the answer is APPROVED with   *)
(* no reason.                                                              *)
(***************************************************************************)
C3_CleanPayloadApproved ==
    Audited /\ Hits(Payload) = {} /\ OverKeys(Payload) = {}
        => response = Approved

(***************************************************************************)
(* C5.  The engine is total: every payload that reaches it ends in         *)
(* APPROVED or BLOCKED with a reason, never in an exception; a payload     *)
(* that is no mapping at top level passes the refund rule without error.   *)
(***************************************************************************)
C5_NeverRaises ==
    Audited
        => /\ response.code = 200
           /\ \/ response = Approved
              \/ /\ response.body.status = "BLOCKED"
                 /\ "reason" \in DOMAIN response.body

(***************************************************************************)
(* C7.  Every request whose body parses as JSON (a top-level null, number  *)
(* or boolean too) is answered 200 with APPROVED or BLOCKED; 400 answers   *)
(* only a body that does not parse or a content type that is not JSON.     *)
(***************************************************************************)
C7_ParsedBodyAnswered200 ==
    /\ Parsed
        => /\ response.code = 200
           /\ response.body.status \in {"APPROVED", "BLOCKED"}
    /\ response.code = 400
        => handled.ctype # "json" \/ handled.body.kind = "malformed"

(***************************************************************************)
(* C4.  A mapping with no banned phrase and a refund field (refund_amount, *)
(* refund, amount, in that order) holding a number over 500 is BLOCKED     *)
(* with the reason 'Refund amount $<amount, two decimals> exceeds maximum  *)
(* of $500', the amount being that of the first such field.                *)
(***************************************************************************)
C4_OverLimitRefundBlocked ==
    Audited /\ Payload.t = "dict" /\ Hits(Payload) = {} /\ HasRefundOverLimit(Payload)
        => response = Blocked(RefundReason(FieldOf(Payload, FirstOverKey(Payload))))

(***************************************************************************)
(* C10.  On a mapping, check_refund_amount returns (True, a) exactly when  *)
(* a refund field holds a value that stands for a number over 500, a being *)
(* the value of the first such field, and (False, None) otherwise.         *)
(***************************************************************************)
C10_RefundRuleResult ==
    Audited /\ Payload.t = "dict"
        => LET r == check_refund_amount(Payload)
           IN /\ ~r.raised
              /\ OverKeys(Payload) # {}
                    => /\ r.is_blocked
                       /\ r.amount = AsFloat(FieldOf(Payload, FirstOverKey(Payload)))
              /\ OverKeys(Payload) = {}
                    => r = [raised |-> FALSE, is_blocked |-> FALSE]

(***************************************************************************)
(* C6.  A refund field whose value is no number and no numeric text is     *)
(* passed over without error, as if it were absent, and the next field     *)
(* name is tried: the answer is that of the payload without such fields;   *)
(* {"refund_amount": "not_a_number", "refund": 600} is BLOCKED for 600.    *)
(***************************************************************************)
\* the pairs of a mapping without its non-numeric refund fields
RECURSIVE DropNonNumeric(_)
DropNonNumeric(pairs) ==
    IF pairs = <<>> THEN <<>>
    ELSE LET pair == Head(pairs)
         IN (IF /\ \E k \in RefundKeys : pair[1] = refund_fields[k]
                /\ NonNumeric(pair[2])
             THEN <<>> ELSE <<pair>>) \o DropNonNumeric(Tail(pairs))

HasNonNumericField(v) ==
    \E k \in RefundKeys : HasField(v, k) /\ NonNumeric(FieldOf(v, k))

ScenarioE ==
    DictV(<< <<"refund_amount", StrV("not_a_number")>>, <<"refund", IntV(600)>> >>)

C6_NonNumericFieldSkipped ==
    /\ Audited /\ Payload.t = "dict" /\ Hits(Payload) = {} /\ HasNonNumericField(Payload)
        => /\ response = audit(DictV(DropNonNumeric(Payload.pairs)))
           /\ check_refund_amount(Payload)
                = check_refund_amount(DictV(DropNonNumeric(Payload.pairs)))
           /\ OverKeys(Payload) = {} => response = Approved
    /\ Audited /\ Payload = ScenarioE
        => response = Blocked("Refund amount $600.00 exceeds maximum of $500")

C6_Witness ==
    /\ Audited
    /\ Payload = ScenarioE
    /\ response = Blocked("Refund amount $600.00 exceeds maximum of $500")

(***************************************************************************)
(* C9, as stated.  A numeric field within the limit ends the evaluation:   *)
(* later aliases are not checked, so a payload whose first usable refund   *)
(* field is within the limit is APPROVED.  (Stated for payloads all of     *)
(* whose refund fields float() accepts or rejects without overflow.)       *)
(***************************************************************************)
\* k is the first refund field with a usable number, and it is within the limit
FirstUsableWithin(v, k) ==
    /\ HasField(v, k)
    /\ WithinLimit(FieldOf(v, k))
    /\ \A j \in RefundKeys : j < k /\ HasField(v, j) => NonNumeric(FieldOf(v, j))

NoneTooLarge(v) ==
    \A k \in RefundKeys : HasField(v, k) => ~TooLarge(FieldOf(v, k))

C9_StopsAtFirstNumericField ==
    ( /\ Audited /\ Payload.t = "dict" /\ Hits(Payload) = {} /\ NoneTooLarge(Payload)
      /\ \E k \in RefundKeys : FirstUsableWithin(Payload, k) )
        => response = Approved

(***************************************************************************)
(* C9, amended.  A numeric field within the limit does not end the         *)
(* evaluation: the later aliases are checked, and the first alias over the *)
(* limit decides.  With every alias before it absent, non-numeric or       *)
(* within the limit (one at least within), the answer is BLOCKED with that *)
(* alias's amount, or the OverflowError of float() when the alias holds an *)
(* integer too large; {"refund_amount": 100, "refund": 600} is BLOCKED.    *)
(***************************************************************************)
WithinThenOver(v, k) ==
    /\ HasField(v, k)
    /\ OverLimit(FieldOf(v, k))
    /\ \A j \in RefundKeys : j < k /\ HasField(v, j)
          => NonNumeric(FieldOf(v, j)) \/ WithinLimit(FieldOf(v, j))
    /\ \E j \in RefundKeys : j < k /\ HasField(v, j) /\ WithinLimit(FieldOf(v, j))

C9_ContinuesPastWithinLimitField ==
    Audited /\ Payload.t = "dict" /\ Hits(Payload) = {}
        => \A k \in RefundKeys :
              WithinThenOver(Payload, k)
                => response = IF TooLarge(FieldOf(Payload, k))
                              THEN ServerError("OverflowError")
                              ELSE Blocked(RefundReason(FieldOf(Payload, k)))

C9_Witness ==
    /\ Audited
    /\ Payload = DictV(<< <<"refund_amount", IntV(100)>>, <<"refund", IntV(600)>> >>)
    /\ response = Blocked("Refund amount $600.00 exceeds maximum of $500")

(***************************************************************************)
(* C8.  Each verdict depends on the payload alone: whatever requests were  *)
(* served before and whatever the other threads do meanwhile, a thread's   *)
(* answer is the one the payload gets under the policy as imported; two    *)
(* audits of one payload agree; no audit changes BANNED_KEYWORDS,          *)
(* MAX_REFUND_AMOUNT or the payload.                                       *)
(***************************************************************************)
\* the refund fields that decide: over the limit, or too large for float()
Decisive(v) ==
    { k \in RefundKeys :
        HasField(v, k) /\ (OverLimit(FieldOf(v, k)) \/ TooLarge(FieldOf(v, k))) }

\* what the engine does with payload v under the policy as imported
InitialVerdict(v) ==
    LET hits == Hits(v)
        decisive == Decisive(v)
    IN IF hits # {} THEN Blocked(KeywordReason(Least(hits)))
       ELSE IF v.t \notin {"dict", "list", "str"} THEN ServerError("TypeError")
       ELSE IF decisive = {} THEN Approved
       ELSE IF TooLarge(FieldOf(v, Least(decisive))) THEN ServerError("OverflowError")
       ELSE Blocked(RefundReason(FieldOf(v, Least(decisive))))

\* ... and the answer to a request of content type JSON
InitialAnswer(req) ==
    IF req.body.kind = "malformed"
    THEN Answer(400, [status |-> "BLOCKED", reason |-> "JSON parsing error: BadRequest"])
    ELSE IF req.body.value = NoneV
    THEN Answer(400, [status |-> "BLOCKED",
             reason |-> "Invalid JSON payload or missing Content-Type header"])
    ELSE InitialVerdict(req.body.value)

C8_VerdictDependsOnPayloadOnly ==
    /\ BANNED_KEYWORDS = BannedKeywordsAtImport
    /\ MAX_REFUND_AMOUNT = MaxRefundAtImport
    /\ \A t \in Threads :
          /\ threads[t].pc = "done"
                => threads[t].response = InitialAnswer(threads[t].request)
          /\ threads[t].pc \in {"scan", "refund"}
                => threads[t].data = threads[t].request.body.value
          /\ threads[t].pc = "done" /\ threads[t].request.body.kind = "json"
                => threads[t].data = threads[t].request.body.value
    /\ \A t1, t2 \in Threads :
          /\ threads[t1].pc = "done" /\ threads[t2].pc = "done"
          /\ threads[t1].request = threads[t2].request
          => threads[t1].response = threads[t2].response

\* two threads have each audited the same payload, in some interleaving of
\* their steps and after whatever they served before, and both answered
\* BLOCKED for DROP TABLE
C8_Witness ==
    \E t1, t2 \in Threads :
        /\ t1 # t2
        /\ threads[t1].pc = "done" /\ threads[t2].pc = "done"
        /\ threads[t1].request = threads[t2].request
        /\ threads[t1].response = Blocked("Banned keyword detected: \"DROP TABLE\"")

=============================================================================
